---- MODULE Spec2Model ----
(***************************************************************************)
(* Model of the vagrant inventory plugin (plugins/vagrant.py):             *)
(*   - the ssh-config text parser inside InventoryModule.parse_inventory,  *)
(*   - the Vagrantfile path resolution and the "vagrant ssh-config" run,   *)
(*   - the cache-aware InventoryModule.parse and InventoryModule.populate. *)
(* Text is a sequence of one-character strings, a dict is a function whose *)
(* domain is the set of keys present.                                      *)
(***************************************************************************)
EXTENDS Integers, Sequences, FiniteSets, TLC

\* ------------------------------------------------------------------ bounds
\* Longest ssh-config text (in lines) the parser specification enumerates.
MaxLines == 3
\* Number of parse() calls one behaviour of the resolver makes.
MaxCalls == 2

\* ------------------------------------------------------- python str helpers
\* Characters str.strip() removes (the newline is consumed by split('\n')).
Whitespace == {" ", "\t", "\r"}

RECURSIVE LStrip(_)
LStrip(s) ==
  IF s = <<>> THEN s
  ELSE IF Head(s) \in Whitespace THEN LStrip(Tail(s)) ELSE s

RECURSIVE RStrip(_)
RStrip(s) ==
  IF s = <<>> THEN s
  ELSE IF s[Len(s)] \in Whitespace THEN RStrip(SubSeq(s, 1, Len(s) - 1)) ELSE s

\* str.strip()
Strip(s) == RStrip(LStrip(s))

\* str.find(c) + 1: the first position of character c in s, 0 if none.
Find(s, c) ==
  IF \E i \in 1..Len(s) : s[i] = c
  THEN CHOOSE i \in 1..Len(s) : s[i] = c /\ \A j \in 1..(i - 1) : s[j] # c
  ELSE 0

\* str.split(sep) with an explicit one-character separator: every occurrence
\* of sep cuts, so adjacent separators give empty pieces and "" gives [""].
RECURSIVE Split(_, _)
Split(s, sep) ==
  LET i == Find(s, sep) IN
  IF i = 0 THEN <<s>>
  ELSE <<SubSeq(s, 1, i - 1)>> \o Split(SubSeq(s, i + 1, Len(s)), sep)

\* sep.join(parts)
RECURSIVE Join(_, _)
Join(parts, sep) ==
  IF parts = <<>> THEN <<>>
  ELSE IF Len(parts) = 1 THEN Head(parts)
  ELSE Head(parts) \o <<sep>> \o Join(Tail(parts), sep)

\* str.startswith(prefix)
StartsWith(s, prefix) ==
  Len(s) >= Len(prefix) /\ SubSeq(s, 1, Len(prefix)) = prefix

\* line.split(' ', 1)[1]: everything after the first space (callers have
\* checked a prefix that contains a space).
AfterFirstSpace(s) == SubSeq(s, Find(s, " ") + 1, Len(s))

\* int(): the decimal digits and their values.
DigitVal(c) ==
  CASE c = "0" -> 0 [] c = "1" -> 1 [] c = "2" -> 2 [] c = "3" -> 3
    [] c = "4" -> 4 [] c = "5" -> 5 [] c = "6" -> 6 [] c = "7" -> 7
    [] c = "8" -> 8 [] c = "9" -> 9 [] OTHER -> -1

IsDigit(c) == DigitVal(c) >= 0

\* Digits with single underscores between them (int() accepts "1_0").
RECURSIVE IsDigitString(_)
IsDigitString(s) ==
  IF s = <<>> THEN FALSE
  ELSE IF ~IsDigit(Head(s)) THEN FALSE
  ELSE IF Len(s) = 1 THEN TRUE
  ELSE IF s[2] = "_" THEN IsDigitString(SubSeq(s, 3, Len(s)))
  ELSE IsDigitString(Tail(s))

RECURSIVE DigitsValue(_, _)
DigitsValue(s, acc) ==
  IF s = <<>> THEN acc
  ELSE IF Head(s) = "_" THEN DigitsValue(Tail(s), acc)
  ELSE DigitsValue(Tail(s), 10 * acc + DigitVal(Head(s)))

\* int(s): surrounding whitespace is stripped, one optional sign, then
\* digits; anything else raises ValueError.
PyInt(s) ==
  LET t == Strip(s)
      signed == t # <<>> /\ Head(t) \in {"+", "-"}
      body == IF signed THEN Tail(t) ELSE t
  IN IF IsDigitString(body)
     THEN [ok |-> TRUE,
           val |-> IF signed /\ Head(t) = "-" THEN 0 - DigitsValue(body, 0)
                   ELSE DigitsValue(body, 0)]
     ELSE [ok |-> FALSE, val |-> 0]

\* ------------------------------------------------------------ python dicts
EmptyDict == [k \in {} |-> 0]

DictLen(d) == Cardinality(DOMAIN d)

HasKey(d, k) == k \in DOMAIN d

\* d[k] = v
DictSet(d, k, v) == [x \in (DOMAIN d) \cup {k} |-> IF x = k THEN v ELSE d[x]]

\* --------------------------------------------------------- the text parser
\* [e.strip() for e in line.strip().split(' ')]
RECURSIVE StripEach(_)
StripEach(parts) ==
  IF parts = <<>> THEN <<>>
  ELSE <<Strip(Head(parts))>> \o StripEach(Tail(parts))

NonEmpty(e) == e # <<>>

\* ' '.join([e for e in line if e != ''])
NormalizeLine(line) ==
  Join(SelectSeq(StripEach(Split(Strip(line), " ")), NonEmpty), " ")

PrefixHost == <<"H", "o", "s", "t", " ">>
PrefixHostName == <<"H", "o", "s", "t", "N", "a", "m", "e", " ">>
PrefixUser == <<"U", "s", "e", "r", " ">>
PrefixPort == <<"P", "o", "r", "t", " ">>
PrefixIdentityFile ==
  <<"I", "d", "e", "n", "t", "i", "t", "y", "F", "i", "l", "e", " ">>

\* The loop's local state: results, host_info, and the exception raised.
ParserStart == [results |-> <<>>, host_info |-> EmptyDict, err |-> "none"]

\* results.append(host_info.copy()); host_info.clear()
Flush(st) ==
  IF DictLen(st.host_info) > 0
  THEN [st EXCEPT !.results = Append(@, st.host_info), !.host_info = EmptyDict]
  ELSE st

\* if line.startswith('Host '): ...
OnHost(line, st) ==
  IF StartsWith(line, PrefixHost)
  THEN LET f == Flush(st) IN
       [f EXCEPT !.host_info = DictSet(@, "host", AfterFirstSpace(line))]
  ELSE st

OnHostName(line, st) ==
  IF StartsWith(line, PrefixHostName)
  THEN [st EXCEPT !.host_info = DictSet(@, "hostname", AfterFirstSpace(line))]
  ELSE st

\* Variant: a user already set is kept.
OnUserFirstWins(line, st) ==
  IF StartsWith(line, PrefixUser) /\ ~HasKey(st.host_info, "user")
  THEN [st EXCEPT !.host_info = DictSet(@, "user", AfterFirstSpace(line))]
  ELSE st

OnUser(line, st) ==
  IF StartsWith(line, PrefixUser)
  THEN [st EXCEPT !.host_info = DictSet(@, "user", AfterFirstSpace(line))]
  ELSE st

\* Variant: a port that is no integer is skipped.
OnPortLenient(line, st) ==
  IF StartsWith(line, PrefixPort)
  THEN LET n == PyInt(AfterFirstSpace(line)) IN
       IF n.ok THEN [st EXCEPT !.host_info = DictSet(@, "port", n.val)]
       ELSE st
  ELSE st

\* host_info['port'] = int(...): a ValueError leaves the loop.
OnPort(line, st) ==
  IF StartsWith(line, PrefixPort)
  THEN LET n == PyInt(AfterFirstSpace(line)) IN
       IF n.ok THEN [st EXCEPT !.host_info = DictSet(@, "port", n.val)]
       ELSE [st EXCEPT !.err = "ValueError"]
  ELSE st

OnIdentityFile(line, st) ==
  IF StartsWith(line, PrefixIdentityFile)
  THEN [st EXCEPT !.host_info = DictSet(@, "sshkey", AfterFirstSpace(line))]
  ELSE st

\* One iteration of `for line in out.split('\n')`.
ProcessLine(raw, st) ==
  LET line == NormalizeLine(raw) IN
  IF line = <<>> THEN st
  ELSE LET s1 == OnHost(line, st)
           s2 == OnHostName(line, s1)
           s3 == OnUser(line, s2)
           s4 == OnPort(line, s3)
       IN IF s4.err # "none" THEN s4 ELSE OnIdentityFile(line, s4)

RECURSIVE ParseLoop(_, _)
ParseLoop(lines, st) ==
  IF lines = <<>> \/ st.err # "none" THEN st
  ELSE ParseLoop(Tail(lines), ProcessLine(Head(lines), st))

\* Variant: nothing is appended after the loop.
FinalFlushMissing(st) == st

\* Lines 91-93: after the loop the last host_info is appended.
FinalFlush(st) == Flush(st)

\* The parser part of parse_inventory: the value returned, or the exception.
ParseText(out) ==
  LET st == ParseLoop(Split(out, "\n"), ParserStart) IN
  IF st.err # "none" THEN [raised |-> st.err, value |-> <<>>]
  ELSE [raised |-> "none", value |-> FinalFlush(st).results]

\* ------------------------------------------------------ ssh-config inputs
\* Raw lines "vagrant ssh-config" can print: regular and irregular spacing,
\* a tab-separated line, a CR line ending, a bad port, an unknown directive.
LineHostA == <<"H", "o", "s", "t", " ", "a">>
LineHostB == <<" ", " ", "H", "o", "s", "t", " ", " ", " ", "b", " ">>
LineHostTab == <<"H", "o", "s", "t", "\t", "b">>
LineHostName == <<" ", " ", "H", "o", "s", "t", "N", "a", "m", "e", " ", "h">>
LineUserU == <<" ", " ", "U", "s", "e", "r", " ", "u">>
LineUserW == <<"\t", "U", "s", "e", "r", " ", " ", "w", "\r">>
LinePort == <<" ", " ", "P", "o", "r", "t", " ", "2", "2">>
LinePortBad == <<" ", " ", "P", "o", "r", "t", " ", "2", "x">>
LineIdentityFile == <<" ", " ", "I", "d", "e", "n", "t", "i", "t", "y", "F", "i", "l", "e", " ", "k">>
LineBlank == <<" ", "\t">>
LineOther == <<" ", " ", "F", "o", "o", " ", "x">>
\* A second value for each remaining field.
LineHostNameG == <<" ", " ", "H", "o", "s", "t", "N", "a", "m", "e", " ", "g">>
LinePort7 == <<" ", " ", "P", "o", "r", "t", " ", "7">>
LineIdentityFileJ == <<" ", " ", "I", "d", "e", "n", "t", "i", "t", "y", "F", "i", "l", "e", " ", "j">>

RawLines ==
  {LineHostA, LineHostB, LineHostTab, LineHostName, LineUserU, LineUserW,
   LinePort, LinePortBad, LineIdentityFile, LineBlank, LineOther,
   LineHostNameG, LinePort7, LineIdentityFileJ}

\* Sequences over S of length at most n.
RECURSIVE SeqsUpTo(_, _)
SeqsUpTo(S, n) ==
  IF n = 0 THEN {<<>>}
  ELSE LET shorter == SeqsUpTo(S, n - 1) IN
       shorter \cup {Append(q, x) : q \in shorter, x \in S}

\* Every text of at most MaxLines raw lines.
Texts == {Join(ls, "\n") : ls \in SeqsUpTo(RawLines, MaxLines)}

\* Outputs used by the resolver: empty, one full block, two blocks with
\* irregular spacing, blocks without optional fields, a bad port after a
\* complete block, and a field line before any Host line.
OutEmpty == <<>>
OutOneHost ==
  Join(<<LineHostA, LineHostName, LineUserU, LinePort, LineIdentityFile>>, "\n")
OutTwoHosts ==
  Join(<<LineHostA, LineHostName, LineUserU, LinePort, LineIdentityFile,
         LineBlank,
         LineHostB, LineHostName, LineUserW, LinePort, LineIdentityFile>>, "\n")
OutBareHosts == Join(<<LineHostA, LineHostB>>, "\n")
OutBadPort ==
  Join(<<LineHostA, LineHostName, LineUserU, LinePort, LineIdentityFile,
         LineHostB, LinePortBad>>, "\n")
OutNoHost == Join(<<LineUserU, LineOther>>, "\n")

ProcOutputs ==
  {OutEmpty, OutOneHost, OutTwoHosts, OutBareHosts, OutBadPort, OutNoHost}

\* ----------------------------------------------------------- optional values
\* A python name that is unbound, or bound to a value.
Unset == [set |-> FALSE, val |-> <<>>]
Some(v) == [set |-> TRUE, val |-> v]

\* -------------------------------------------------------------- filesystem
\* Paths are absolute, as the sequence of their components.
MarkerName == "Vagrantfile"

RegularFiles ==
  { <<"proj", MarkerName>>, <<"lab", MarkerName>>, <<"inv", "inv.yml">>,
    <<"lab", "lab.yml">> }

Directories ==
  { <<>>, <<"proj">>, <<"lab">>, <<"inv">>, <<"empty">>, <<"odd">>,
    <<"odd", MarkerName>> }

\* Path.is_file(), Path.exists()
IsFile(p) == p \in RegularFiles
Exists(p) == p \in RegularFiles \cup Directories

\* Path.parent, Path.name
Parent(p) == IF p = <<>> THEN p ELSE SubSeq(p, 1, Len(p) - 1)
Name(p) == IF p = <<>> THEN "" ELSE p[Len(p)]

\* Path.resolve() on a filesystem without symlinks: "." and ".." are folded.
RECURSIVE Resolve(_, _)
Resolve(parts, acc) ==
  IF parts = <<>> THEN acc
  ELSE IF Head(parts) = "." THEN Resolve(Tail(parts), acc)
  ELSE IF Head(parts) = ".." THEN Resolve(Tail(parts), Parent(acc))
  ELSE Resolve(Tail(parts), Append(acc, Head(parts)))

\* The inventory sources (inventory file paths) and the values of their
\* `vagrantfile` option.
Sources == { <<"inv", "inv.yml">>, <<"lab", "lab.yml">> }

VagrantfileOptions ==
  { [absolute |-> TRUE, parts |-> <<"proj">>],
    [absolute |-> TRUE, parts |-> <<"proj", MarkerName>>],
    [absolute |-> TRUE, parts |-> <<"empty">>],
    [absolute |-> TRUE, parts |-> <<"odd">>],
    [absolute |-> FALSE, parts |-> <<"..", "proj">>],
    [absolute |-> FALSE, parts |-> <<".">>],
    [absolute |-> FALSE, parts |-> <<"inv.yml">>] }

\* Variant: the path of the Vagrantfile itself is kept as the directory.
LocateVagrantfileNoParent(path, option) ==
  LET joined == IF option.absolute THEN option.parts
                ELSE Parent(path) \o option.parts
      vf_path == Resolve(joined, <<>>)
      vf_file == Append(vf_path, MarkerName)
  IN IF IsFile(vf_path)
     THEN IF Name(vf_path) = MarkerName
          THEN [raised |-> "none", dir |-> vf_path]
          ELSE [raised |-> "AnsibleFileNotFound", dir |-> <<>>]
     ELSE IF ~(IsFile(vf_file) /\ Exists(vf_file))
          THEN [raised |-> "AnsibleFileNotFound", dir |-> <<>>]
          ELSE [raised |-> "none", dir |-> vf_path]

\* parse_inventory, lines 50-64: the directory to run vagrant in, or the
\* exception raised.
LocateVagrantfile(path, option) ==
  LET joined == IF option.absolute THEN option.parts
                ELSE Parent(path) \o option.parts
      vf_path == Resolve(joined, <<>>)
      vf_file == Append(vf_path, MarkerName)
  IN IF IsFile(vf_path)
     THEN IF Name(vf_path) = MarkerName
          THEN IF ~Exists(vf_path)
               THEN [raised |-> "AnsibleFileNotFound", dir |-> <<>>]
               ELSE [raised |-> "none", dir |-> Parent(vf_path)]
          ELSE [raised |-> "AnsibleFileNotFound", dir |-> <<>>]
     ELSE IF ~(IsFile(vf_file) /\ Exists(vf_file))
          THEN [raised |-> "AnsibleFileNotFound", dir |-> <<>>]
          ELSE [raised |-> "none", dir |-> vf_path]

\* ------------------------------------------------------------ inventory sink
\* inventory.add_host(host): a host already present keeps its variables.
AddHost(inv, host) ==
  IF host \in DOMAIN inv THEN inv
  ELSE [h \in (DOMAIN inv) \cup {host} |-> IF h = host THEN EmptyDict ELSE inv[h]]

\* inventory.set_variable(host, name, value)
SetVariable(inv, host, name, value) ==
  [inv EXCEPT ![host] = DictSet(@, name, value)]

\* The variables populate reads from host_info, in the order it sets them;
\* ansible_host_key_checking has no source key.
PopulateVars ==
  << [var |-> "ansible_host", key |-> "hostname"],
     [var |-> "ansible_user", key |-> "user"],
     [var |-> "ansible_port", key |-> "port"],
     [var |-> "ansible_host_key_checking", key |-> ""],
     [var |-> "ansible_ssh_private_key_file", key |-> "sshkey"] >>

\* The set_variable calls of one loop iteration, from the i-th on; a missing
\* key of host_info raises KeyError and leaves what was set before.
RECURSIVE SetVariables(_, _, _)
SetVariables(st, host_info, i) ==
  IF i > Len(PopulateVars) THEN st
  ELSE LET v == PopulateVars[i] IN
       IF v.key = ""
       THEN SetVariables([st EXCEPT !.inv =
                            SetVariable(@, host_info["host"], v.var, FALSE)],
                         host_info, i + 1)
       ELSE IF ~HasKey(host_info, v.key)
       THEN [st EXCEPT !.err = "KeyError"]
       ELSE SetVariables([st EXCEPT !.inv =
                            SetVariable(@, host_info["host"], v.var, host_info[v.key])],
                         host_info, i + 1)

\* One iteration of populate's loop.
PopulateHost(st, host_info) ==
  IF ~HasKey(host_info, "host") THEN [st EXCEPT !.err = "KeyError"]
  ELSE SetVariables([st EXCEPT !.inv = AddHost(@, host_info["host"])],
                    host_info, 1)

\* populate(results): the inventory after it, and the exception if one left it.
RECURSIVE PopulateLoop(_, _)
PopulateLoop(st, records) ==
  IF records = <<>> \/ st.err # "none" THEN st
  ELSE PopulateLoop(PopulateHost(st, Head(records)), Tail(records))

EmptyInventory == [h \in {} |-> EmptyDict]

Populate(records) == PopulateLoop([inv |-> EmptyInventory, err |-> "none"], records)

\* ------------------------------------------------------------------- state
VARIABLES
  pc,                     \* position inside parse(), or "idle"/"returned"/"raised"
  calls,                  \* parse() calls started so far
  cache,                  \* self._cache: cache key -> cached results
  path,                   \* parse(path): the inventory source
  vagrantfile,            \* cfg['vagrantfile']
  cache_arg,              \* parse(cache=...): the cache is not being refreshed
  user_cache_setting,     \* self.get_option('cache')
  attempt_to_read_cache,
  cache_needs_update,
  vf_path,                \* the directory vagrant runs in, once located
  proc,                   \* what the run of vagrant did, "not_run" before it
  out,                    \* proc.stdout.decode('utf8'), once vagrant ran
  results,                \* the local `results` of parse()
  error,                  \* the exception that left parse(), or "none"
  inventory,              \* self.inventory as populate left it
  steps,                  \* the collaborators this call has used, in order
  cache0                  \* the cache when this call started

vars ==
  << pc, calls, cache, path, vagrantfile, cache_arg, user_cache_setting,
     attempt_to_read_cache, cache_needs_update, vf_path, proc, out, results,
     error, inventory, steps, cache0 >>

\* self.get_cache_key(path): one key per inventory source.
CacheKey(p) == p

EmptyCache == [k \in {} |-> <<>>]

\* What the run of ['vagrant', 'ssh-config'] and the decoding can do.
ProcOutcomes == {"ok", "launch_failed", "nonzero_exit", "undecodable"}

Init ==
  /\ pc = "idle"
  /\ calls = 0
  /\ cache = EmptyCache
  /\ path = <<"inv", "inv.yml">>
  /\ vagrantfile = [absolute |-> TRUE, parts |-> <<"proj">>]
  /\ cache_arg = TRUE
  /\ user_cache_setting = FALSE
  /\ attempt_to_read_cache = FALSE
  /\ cache_needs_update = FALSE
  /\ vf_path = Unset
  /\ proc = "not_run"
  /\ out = Unset
  /\ results = Unset
  /\ error = "none"
  /\ inventory = EmptyInventory
  /\ steps = <<>>
  /\ cache0 = EmptyCache

Idle == pc \in {"idle", "returned", "raised"}

\* Variant: the user's cache option is not consulted.
AttemptToReadCacheAnyUser(user, fresh) == fresh

\* Line 107: read if the user has caching enabled and the cache is not
\* being refreshed.
AttemptToReadCache(user, fresh) == user /\ fresh

\* Variant: the `not` of line 109 is missing.
CacheNeedsUpdateNoNot(user, fresh) == user /\ fresh

\* Line 109: update if the user has caching enabled and the cache is being
\* refreshed.
CacheNeedsUpdate(user, fresh) == user /\ ~fresh

\* Variant: the handler of the KeyError does not set the flag.
NeedsUpdateAfterMissKept(needs) == needs

\* Lines 116-118: the KeyError of a missing or expired key is caught and
\* turns cache_needs_update on.
NeedsUpdateAfterMiss(needs) == TRUE

\* Variant: a handler swallows the exception and the call goes on.
RaiseSwallowed(e) == "populate"

\* An exception nothing catches (parse() has no handler around
\* parse_inventory or populate) leaves the call.
Raise(e) == "raised"

\* Variant: the inventory source is parsed on every call.
MustParseAlways(attempt, needs) == TRUE

\* Line 119: is the inventory source parsed?
MustParse(attempt, needs) == ~attempt \/ needs

\* Variant: the results are never written back.
AfterResultsNoWrite(needs) == "populate"

\* Where parse() goes once `results` is bound (line 123).
AfterResults(needs) == IF needs THEN "write_cache" ELSE "populate"

\* parse(), lines 96-112: a call starts; the flags are computed.
Call ==
  /\ Idle
  /\ calls < MaxCalls
  /\ \E p \in Sources, o \in VagrantfileOptions, c \in BOOLEAN, u \in BOOLEAN :
       /\ path' = p
       /\ vagrantfile' = o
       /\ cache_arg' = c
       /\ user_cache_setting' = u
       /\ attempt_to_read_cache' = AttemptToReadCache(u, c)
       /\ cache_needs_update' = CacheNeedsUpdate(u, c)
       /\ pc' = IF AttemptToReadCache(u, c) THEN "read_cache"
                ELSE IF MustParse(AttemptToReadCache(u, c), CacheNeedsUpdate(u, c))
                THEN "locate"
                ELSE AfterResults(CacheNeedsUpdate(u, c))
  /\ calls' = calls + 1
  /\ vf_path' = Unset
  /\ proc' = "not_run"
  /\ out' = Unset
  /\ results' = Unset
  /\ error' = "none"
  /\ inventory' = EmptyInventory
  /\ steps' = <<>>
  /\ cache0' = cache
  /\ UNCHANGED cache

\* Lines 112-119: results = self._cache[cache_key], KeyError caught.
ReadCache ==
  /\ pc = "read_cache"
  /\ steps' = Append(steps, "read_cache")
  /\ IF HasKey(cache, CacheKey(path))
     THEN /\ results' = Some(cache[CacheKey(path)])
          /\ UNCHANGED cache_needs_update
          /\ pc' = IF MustParse(attempt_to_read_cache, cache_needs_update)
                   THEN "locate" ELSE AfterResults(cache_needs_update)
     ELSE /\ cache_needs_update' = NeedsUpdateAfterMiss(cache_needs_update)
          /\ UNCHANGED results
          /\ pc' = IF MustParse(attempt_to_read_cache,
                                NeedsUpdateAfterMiss(cache_needs_update))
                   THEN "locate"
                   ELSE AfterResults(NeedsUpdateAfterMiss(cache_needs_update))
  /\ UNCHANGED << calls, proc, cache, path, vagrantfile, cache_arg, user_cache_setting,
                  attempt_to_read_cache, vf_path, out, error, inventory, cache0 >>

\* parse_inventory, lines 49-64.
Locate ==
  /\ pc = "locate"
  /\ steps' = Append(steps, "locate")
  /\ LET r == LocateVagrantfile(path, vagrantfile) IN
     IF r.raised # "none"
     THEN /\ error' = r.raised
          /\ pc' = Raise(r.raised)
          /\ UNCHANGED vf_path
     ELSE /\ vf_path' = Some(r.dir)
          /\ pc' = "run"
          /\ UNCHANGED error
  /\ UNCHANGED << calls, proc, cache, path, vagrantfile, cache_arg, user_cache_setting,
                  attempt_to_read_cache, cache_needs_update, out, results,
                  inventory, cache0 >>

\* Variant: the handler catches OSError only, so a non-zero exit status
\* leaves as subprocess.CalledProcessError.
RunExceptionOSErrorOnly(outcome) ==
  CASE outcome = "launch_failed" -> "AnsibleError"
    [] outcome = "nonzero_exit" -> "CalledProcessError"
    [] outcome = "undecodable" -> "UnicodeDecodeError"
    [] OTHER -> "none"

\* Lines 65-69: `except Exception` turns whatever run() raises into
\* AnsibleError; the decoding of line 69 is outside the try.
RunException(outcome) ==
  CASE outcome \in {"launch_failed", "nonzero_exit"} -> "AnsibleError"
    [] outcome = "undecodable" -> "UnicodeDecodeError"
    [] OTHER -> "none"

\* Lines 65-69: vagrant runs in vf_path; its stdout is decoded.
RunVagrant ==
  /\ pc = "run"
  /\ steps' = Append(steps, "run")
  /\ \E outcome \in ProcOutcomes :
       /\ proc' = outcome
       /\ IF RunException(outcome) = "none"
          THEN \E text \in ProcOutputs :
                 /\ out' = Some(text)
                 /\ pc' = "parse"
                 /\ UNCHANGED error
          ELSE /\ error' = RunException(outcome)
               /\ pc' = Raise(RunException(outcome))
               /\ UNCHANGED out
  /\ UNCHANGED << calls, cache, path, vagrantfile, cache_arg, user_cache_setting,
                  attempt_to_read_cache, cache_needs_update, vf_path, results,
                  inventory, cache0 >>

\* Lines 70-94 and the return to line 122.
ParseOutput ==
  /\ pc = "parse"
  /\ steps' = Append(steps, "parse")
  /\ LET r == ParseText(out.val) IN
     IF r.raised # "none"
     THEN /\ error' = r.raised
          /\ pc' = Raise(r.raised)
          /\ UNCHANGED results
     ELSE /\ results' = Some(r.value)
          /\ pc' = AfterResults(cache_needs_update)
          /\ UNCHANGED error
  /\ UNCHANGED << calls, proc, cache, path, vagrantfile, cache_arg, user_cache_setting,
                  attempt_to_read_cache, cache_needs_update, vf_path, out,
                  inventory, cache0 >>

\* Variant: the entry just written is read back from the cache.
AfterWriteReadBack == "read_cache"

\* Lines 125-128: after the write the call goes on to populate.
AfterWrite == "populate"

\* Lines 123-125: self._cache[cache_key] = results
WriteCache ==
  /\ pc = "write_cache"
  /\ steps' = Append(steps, "write_cache")
  /\ cache' = DictSet(cache, CacheKey(path), results.val)
  /\ pc' = AfterWrite
  /\ UNCHANGED << calls, proc, path, vagrantfile, cache_arg, user_cache_setting,
                  attempt_to_read_cache, cache_needs_update, vf_path, out,
                  results, error, inventory, cache0 >>

\* Variant: the records are written to the cache after populate.
AfterPopulateWriteBack == "write_cache"

\* After line 128 parse() has nothing left to do and returns.
AfterPopulate == "returned"

\* Line 128: self.populate(results), then parse() returns.
PopulateInventory ==
  /\ pc = "populate"
  /\ steps' = Append(steps, "populate")
  /\ LET r == Populate(results.val) IN
     /\ inventory' = r.inv
     /\ error' = r.err
     /\ pc' = IF r.err # "none" THEN Raise(r.err) ELSE AfterPopulate
  /\ UNCHANGED << calls, proc, cache, path, vagrantfile, cache_arg, user_cache_setting,
                  attempt_to_read_cache, cache_needs_update, vf_path, out,
                  results, cache0 >>

\* The cache plugin drops an expired entry between calls (the KeyError case
\* of line 117).
ExpireCache ==
  /\ Idle
  /\ \E k \in DOMAIN cache :
       cache' = [x \in (DOMAIN cache) \ {k} |-> cache[x]]
  /\ pc' = "idle"
  /\ UNCHANGED << calls, proc, path, vagrantfile, cache_arg, user_cache_setting,
                  attempt_to_read_cache, cache_needs_update, vf_path, out,
                  results, error, inventory, steps, cache0 >>

Next ==
  \/ Call
  \/ ReadCache
  \/ Locate
  \/ RunVagrant
  \/ ParseOutput
  \/ WriteCache
  \/ PopulateInventory
  \/ ExpireCache

Spec == Init /\ [][Next]_vars

\* ------------------------------------------------- the parser on its own
\* A call that has just received vagrant's output: every text of at most
\* MaxLines lines, with caching off.
InitParser ==
  /\ pc = "parse"
  /\ calls = 1
  /\ cache = EmptyCache
  /\ path = <<"lab", "lab.yml">>
  /\ vagrantfile = [absolute |-> FALSE, parts |-> <<".">>]
  /\ cache_arg = TRUE
  /\ user_cache_setting = FALSE
  /\ attempt_to_read_cache = FALSE
  /\ cache_needs_update = FALSE
  /\ vf_path = Some(<<"lab">>)
  /\ proc = "ok"
  /\ \E text \in Texts : out = Some(text)
  /\ results = Unset
  /\ error = "none"
  /\ inventory = EmptyInventory
  /\ steps = <<"locate", "run">>
  /\ cache0 = EmptyCache

NextParser == ParseOutput

SpecParser == InitParser /\ [][NextParser]_vars

\* ------------------------------------------------------- reading a call
\* How often this call used a collaborator.
Count(step) == Cardinality({i \in 1..Len(steps) : steps[i] = step})

\* A call is running or has just ended (no expiry since).
InCall == pc # "idle"
Ended == pc \in {"returned", "raised"}

Key == CacheKey(path)

\* The records parse_inventory returned in this call.
FreshlyParsed ==
  /\ out.set
  /\ ParseText(out.val).raised = "none"
  /\ results = Some(ParseText(out.val).value)

\* -------------------------------------------------------------------- C1
\* C1: in a call with caching enabled, the cache not being refreshed and an
\* entry cached for the source's key, neither the locator nor vagrant is
\* used, the cache is not written, and the call ends by handing populate
\* exactly the cached entry.
C1_CacheHit ==
  (InCall /\ user_cache_setting /\ cache_arg /\ HasKey(cache0, Key)) =>
    /\ Count("locate") = 0
    /\ Count("run") = 0
    /\ Count("parse") = 0
    /\ Count("write_cache") = 0
    /\ cache = cache0
    /\ (Ended => Count("populate") = 1 /\ results = Some(cache0[Key]))

C1_Witness ==
  /\ pc = "returned"
  /\ user_cache_setting /\ cache_arg /\ HasKey(cache0, Key)
  /\ steps = <<"read_cache", "populate">>
  /\ results.val # <<>>
  /\ DOMAIN inventory # {}

\* -------------------------------------------------------------------- C2
\* C2: in a call with caching enabled, the cache not being refreshed and no
\* entry for the key, the miss does not end the call: the locator runs next,
\* and once parse_inventory has returned, the cache holds the freshly parsed
\* records under the key and populate is handed the same records.
C2_CacheMiss ==
  (InCall /\ user_cache_setting /\ cache_arg /\ ~HasKey(cache0, Key)) =>
    /\ (steps # <<>> => steps[1] = "read_cache")
    /\ (Len(steps) = 1 => pc = "locate" /\ error = "none")
    /\ (Len(steps) >= 2 => steps[2] = "locate")
    /\ Count("read_cache") <= 1
    /\ (Ended /\ Count("parse") = 1 /\ error # "ValueError" =>
          /\ FreshlyParsed
          /\ HasKey(cache, Key) /\ cache[Key] = results.val
          /\ steps = <<"read_cache", "locate", "run", "parse", "write_cache",
                       "populate">>)
    /\ (Ended /\ ~FreshlyParsed => cache = cache0)

C2_Witness ==
  /\ pc = "returned"
  /\ user_cache_setting /\ cache_arg /\ ~HasKey(cache0, Key)
  /\ FreshlyParsed
  /\ Len(results.val) = 2
  /\ cache[Key] = results.val
  /\ Count("populate") = 1

\* -------------------------------------------------------------------- C3
\* C3 as stated: in a forced refresh (caching enabled, cache being
\* refreshed) the cache is never read, vagrant is run exactly once, and on
\* success the entry for the key is the freshly parsed records.
C3_AsStated ==
  (Ended /\ user_cache_setting /\ ~cache_arg) =>
    /\ Count("read_cache") = 0
    /\ Count("run") = 1
    /\ (pc = "returned" =>
          FreshlyParsed /\ HasKey(cache, Key) /\ cache[Key] = results.val)

\* C3 amended: in a forced refresh the cache is never read, vagrant is run
\* at most once, exactly once when the locator succeeded and not at all
\* when it failed, and on success the entry for the key is overwritten with
\* the freshly parsed records whether or not an entry existed before.
C3_ForcedRefresh ==
  (InCall /\ user_cache_setting /\ ~cache_arg) =>
    /\ Count("read_cache") = 0
    /\ Count("run") <= 1
    /\ (Ended => (Count("run") = 1 <=> vf_path.set))
    /\ (Ended /\ ~vf_path.set => error = "AnsibleFileNotFound")
    /\ (pc = "returned" =>
          FreshlyParsed /\ HasKey(cache, Key) /\ cache[Key] = results.val)

C3_Witness ==
  /\ pc = "returned"
  /\ user_cache_setting /\ ~cache_arg
  /\ HasKey(cache0, Key) /\ cache0[Key] # results.val
  /\ cache[Key] = results.val
  /\ results.val # <<>>
  /\ Count("run") = 1

\* -------------------------------------------------------------------- C4
\* C4: in a call with caching disabled, whatever the refresh flag, the cache
\* is neither read nor written, every entry is as it was when the call
\* started, and what populate is handed was parsed in this call from one
\* run of vagrant.
C4_CachingDisabled ==
  (InCall /\ ~user_cache_setting) =>
    /\ Count("read_cache") = 0
    /\ Count("write_cache") = 0
    /\ cache = cache0
    /\ (Count("populate") > 0 => FreshlyParsed /\ Count("run") = 1)
    /\ (pc = "returned" => Count("populate") = 1)

C4_Witness ==
  /\ pc = "returned"
  /\ ~user_cache_setting /\ cache_arg
  /\ HasKey(cache0, Key) /\ cache0[Key] # results.val
  /\ FreshlyParsed
  /\ results.val # <<>>

\* -------------------------------------------------------------------- C5
\* C5: when the locator, the vagrant run or the parser fails, the call ends
\* with that error, the cache is as it was when the call started, populate
\* is not called and the inventory is untouched, and vagrant is not run
\* again in the call.
FailedIn(step) ==
  /\ steps # <<>>
  /\ steps[Len(steps)] = step
  /\ error # "none"

C5_FailureIsFatal ==
  (InCall /\ (FailedIn("locate") \/ FailedIn("run") \/ FailedIn("parse"))) =>
    /\ pc = "raised"
    /\ error \in {"AnsibleFileNotFound", "AnsibleError", "UnicodeDecodeError",
                  "ValueError"}
    /\ cache = cache0
    /\ Count("write_cache") = 0
    /\ Count("populate") = 0
    /\ inventory = EmptyInventory
    /\ Count("run") <= 1
    /\ ~ENABLED (ReadCache \/ Locate \/ RunVagrant \/ ParseOutput \/ WriteCache
                 \/ PopulateInventory)

C5_Witness ==
  /\ pc = "raised"
  /\ FailedIn("parse")
  /\ error = "ValueError"
  /\ cache_needs_update
  /\ HasKey(cache0, Key)
  /\ cache = cache0

\* -------------------------------------------------------------------- C6
\* C6: for every record handed to populate that has a `host`, populate
\* registers the host and sets all five connection variables on it, also
\* when the record lacks optional fields; populate does not fail part-way.
ConnectionVars ==
  {"ansible_host", "ansible_user", "ansible_port", "ansible_host_key_checking",
   "ansible_ssh_private_key_file"}

C6_PopulatesEveryRecord ==
  (Ended /\ Count("populate") = 1
     /\ \A i \in 1..Len(results.val) : HasKey(results.val[i], "host")) =>
    /\ error = "none"
    /\ \A i \in 1..Len(results.val) :
         /\ results.val[i]["host"] \in DOMAIN inventory
         /\ DOMAIN inventory[results.val[i]["host"]] = ConnectionVars
         /\ inventory[results.val[i]["host"]]["ansible_host_key_checking"] = FALSE

\* ------------------------------------------------- reading a parsed text
\* The lines of a text as the loop sees them: normalized, empty ones dropped.
RECURSIVE NormalizeEach(_)
NormalizeEach(lines) ==
  IF lines = <<>> THEN <<>>
  ELSE <<NormalizeLine(Head(lines))>> \o NormalizeEach(Tail(lines))

NormLines(text) == SelectSeq(NormalizeEach(Split(text, "\n")), NonEmpty)

IsHostLine(l) == StartsWith(l, PrefixHost)
IsPortLine(l) == StartsWith(l, PrefixPort)
IsFieldLine(l) ==
  \/ StartsWith(l, PrefixHostName)
  \/ StartsWith(l, PrefixUser)
  \/ StartsWith(l, PrefixPort)
  \/ StartsWith(l, PrefixIdentityFile)

IsBadPortLine(l) == IsPortLine(l) /\ ~PyInt(AfterFirstSpace(l)).ok

\* The Host lines of a text, in order.
HostLines(text) == SelectSeq(NormLines(text), IsHostLine)

\* The text is a sequence of host blocks: every field line follows a Host
\* line, and every port is an integer.
WellFormedBlocks(text) ==
  LET ls == NormLines(text) IN
  /\ \A i \in 1..Len(ls) :
       IsFieldLine(ls[i]) => \E j \in 1..(i - 1) : IsHostLine(ls[j])
  /\ \A i \in 1..Len(ls) : ~IsBadPortLine(ls[i])

\* The parser has run on `out`.
Parsed == out.set /\ Count("parse") = 1

\* -------------------------------------------------------------------- C7
\* C7: for a text without any line that normalizes to a `Host ` line, the
\* parser returns the empty sequence.
C7_NoHostLinesNoRecords ==
  (Parsed /\ error = "none" /\ HostLines(out.val) = <<>>) =>
    results = Some(<<>>)

\* -------------------------------------------------------------------- C8
\* C8: for a text of N well-formed host blocks the parser returns N records,
\* in the order of the blocks, the i-th with the host named by the i-th
\* Host line; the last block is emitted too.
C8_OneRecordPerBlock ==
  (Parsed /\ WellFormedBlocks(out.val)) =>
    LET hs == HostLines(out.val) IN
    /\ error # "ValueError"
    /\ results.set
    /\ Len(results.val) = Len(hs)
    /\ \A i \in 1..Len(hs) :
         /\ HasKey(results.val[i], "host")
         /\ results.val[i]["host"] = AfterFirstSpace(hs[i])

C8_Witness ==
  /\ Parsed /\ WellFormedBlocks(out.val)
  /\ Len(HostLines(out.val)) = 2
  /\ Len(results.val) = 2
  /\ results.val[1]["host"] # results.val[2]["host"]
  /\ HasKey(results.val[2], "user")

\* -------------------------------------------------------------------- C9
\* C9: every record the parser returns has its `host` field set.
C9_EveryRecordHasHost ==
  (Parsed /\ results.set) =>
    \A i \in 1..Len(results.val) : HasKey(results.val[i], "host")

\* ------------------------------------------------------------------- C10
\* C10: when some `Port ` line has a value that is no base-10 integer, the
\* parse fails with ValueError and returns nothing: `results` stays unbound
\* and nothing reaches the inventory, whatever blocks came before.
HasBadPort(text) ==
  \E i \in 1..Len(NormLines(text)) : IsBadPortLine(NormLines(text)[i])

C10_BadPortFails ==
  (Parsed /\ HasBadPort(out.val)) =>
    /\ pc = "raised"
    /\ error = "ValueError"
    /\ ~results.set
    /\ inventory = EmptyInventory
    /\ ~ENABLED PopulateInventory

C10_Witness ==
  /\ Parsed /\ HasBadPort(out.val)
  /\ pc = "raised"
  /\ Len(HostLines(out.val)) = 2
  /\ IsBadPortLine(NormLines(out.val)[3])

\* ------------------------------------------------------- host blocks
\* The positions of the Host lines among the normalized lines ls.
HostPositions(ls) == {i \in 1..Len(ls) : IsHostLine(ls[i])}

NumHosts(ls) == Cardinality(HostPositions(ls))

\* The position of the n-th Host line.
NthHost(ls, n) ==
  CHOOSE i \in HostPositions(ls) :
    Cardinality({j \in HostPositions(ls) : j < i}) = n - 1

\* The n-th host block: from its Host line up to the next one or the end.
BlockLines(ls, n) ==
  SubSeq(ls, NthHost(ls, n),
         IF n < NumHosts(ls) THEN NthHost(ls, n + 1) - 1 ELSE Len(ls))

\* The lines before the first Host line.
Preface(ls) ==
  SubSeq(ls, 1, IF NumHosts(ls) = 0 THEN Len(ls) ELSE NthHost(ls, 1) - 1)

\* The record field a normalized line sets, "" if none.
FieldKey(l) ==
  IF StartsWith(l, PrefixHost) THEN "host"
  ELSE IF StartsWith(l, PrefixHostName) THEN "hostname"
  ELSE IF StartsWith(l, PrefixUser) THEN "user"
  ELSE IF StartsWith(l, PrefixPort) THEN "port"
  ELSE IF StartsWith(l, PrefixIdentityFile) THEN "sshkey"
  ELSE ""

KeysOf(lines) == {FieldKey(lines[i]) : i \in 1..Len(lines)} \ {""}

Occurrences(lines, k) == {i \in 1..Len(lines) : FieldKey(lines[i]) = k}

\* The value the last line for key k in `lines` gives the field.
LastValue(lines, k) ==
  LET m == CHOOSE i \in Occurrences(lines, k) :
             \A j \in Occurrences(lines, k) : j <= i
  IN IF k = "port" THEN PyInt(AfterFirstSpace(lines[m])).val
     ELSE AfterFirstSpace(lines[m])

\* Records emitted before the first host block (field lines without a Host).
Offset(ls) == IF KeysOf(Preface(ls)) # {} THEN 1 ELSE 0

\* ------------------------------------------------------------------- C11
\* C11: within one parse result no two records have the same `host`, also
\* when the text repeats a `Host <name>` line.
C11_HostIsUnique ==
  (Parsed /\ results.set) =>
    \A i, j \in 1..Len(results.val) :
      (i < j /\ HasKey(results.val[i], "host") /\ HasKey(results.val[j], "host"))
        => results.val[i]["host"] # results.val[j]["host"]

\* ------------------------------------------------------------------- C12
\* Position of the first whitespace (non-whitespace) character, Len + 1 if
\* there is none.
FirstWs(t) ==
  IF \E i \in 1..Len(t) : t[i] \in Whitespace
  THEN CHOOSE i \in 1..Len(t) :
         t[i] \in Whitespace /\ \A j \in 1..(i - 1) : t[j] \notin Whitespace
  ELSE Len(t) + 1

FirstNonWs(t) ==
  IF \E i \in 1..Len(t) : t[i] \notin Whitespace
  THEN CHOOSE i \in 1..Len(t) :
         t[i] \notin Whitespace /\ \A j \in 1..(i - 1) : t[j] \in Whitespace
  ELSE Len(t) + 1

\* The tokens of a line: its maximal runs of non-whitespace characters.
RECURSIVE Tokens(_)
Tokens(s) ==
  LET t == LStrip(s) IN
  IF t = <<>> THEN <<>>
  ELSE <<SubSeq(t, 1, FirstWs(t) - 1)>> \o Tokens(SubSeq(t, FirstWs(t), Len(t)))

\* The whitespace runs between the tokens of a line.
RECURSIVE SepRuns(_)
SepRuns(s) ==
  LET t == Strip(s)
      rest == SubSeq(t, FirstWs(t), Len(t))
  IN IF rest = <<>> THEN <<>>
     ELSE <<SubSeq(rest, 1, FirstNonWs(rest) - 1)>>
          \o SepRuns(SubSeq(rest, FirstNonWs(rest), Len(rest)))

\* Two lines with the same tokens, whose separating runs are equal or of
\* different length (leading and trailing whitespace is free).
SameLineLayout(a, b) ==
  /\ Tokens(a) = Tokens(b)
  /\ \A i \in 1..Len(SepRuns(a)) :
       SepRuns(a)[i] = SepRuns(b)[i] \/ Len(SepRuns(a)[i]) # Len(SepRuns(b)[i])

SameLayout(t1, t2) ==
  LET a == Split(t1, "\n")
      b == Split(t2, "\n")
  IN /\ Len(a) = Len(b)
     /\ \A i \in 1..Len(a) : SameLineLayout(a[i], b[i])

\* C12: a text that differs from the parsed one only in leading/trailing
\* whitespace and in the length of the whitespace runs between tokens
\* parses to the same records.
C12_WhitespaceInsensitive ==
  (Parsed /\ results.set) =>
    \A t \in Texts :
      SameLayout(out.val, t) =>
        ParseText(t) = [raised |-> "none", value |-> results.val]

\* ------------------------------------------------------------------- C13
\* The configured path, joined to the inventory file's directory when
\* relative, and resolved.
ConfiguredPath ==
  Resolve(IF vagrantfile.absolute THEN vagrantfile.parts
          ELSE Parent(path) \o vagrantfile.parts, <<>>)

HasMarker(dir) == IsFile(Append(dir, MarkerName))

\* C13: once the locator has run, a directory it produced contains a
\* regular file Vagrantfile: the configured path itself when that is a
\* directory with the marker, its parent when it is the marker file. A path
\* that is no regular file and has no marker in it, or a regular file of
\* another name, raises AnsibleFileNotFound and vagrant is never run.
C13_LocatedDirectoryHasMarker ==
  (InCall /\ Count("locate") = 1) =>
    LET cfg == ConfiguredPath IN
    /\ (vf_path.set => HasMarker(vf_path.val))
    /\ (Count("run") > 0 => vf_path.set)
    /\ (~IsFile(cfg) /\ HasMarker(cfg) => vf_path = Some(cfg))
    /\ (IsFile(cfg) /\ Name(cfg) = MarkerName => vf_path = Some(Parent(cfg)))
    /\ ((~IsFile(cfg) /\ ~HasMarker(cfg)) \/ (IsFile(cfg) /\ Name(cfg) # MarkerName)
          => /\ pc = "raised"
             /\ error = "AnsibleFileNotFound"
             /\ ~vf_path.set
             /\ Count("run") = 0)

C13_Witness ==
  /\ Count("run") = 1
  /\ IsFile(ConfiguredPath) /\ Name(ConfiguredPath) = MarkerName
  /\ vf_path = Some(Parent(ConfiguredPath))
  /\ ~vagrantfile.absolute \/ vagrantfile.parts = <<"proj", MarkerName>>

\* ------------------------------------------------------------------- C14
\* C14: when vagrant cannot be launched or exits non-zero, the call ends
\* with AnsibleError, no other exception kind, and the parser is not run.
C14_RunFailureIsAnsibleError ==
  (InCall /\ proc \in {"launch_failed", "nonzero_exit"}) =>
    /\ pc = "raised"
    /\ error = "AnsibleError"
    /\ ~out.set
    /\ Count("parse") = 0
    /\ Count("populate") = 0

C14_Witness ==
  /\ pc = "raised"
  /\ proc = "nonzero_exit"
  /\ error = "AnsibleError"
  /\ steps[Len(steps)] = "run"

\* ------------------------------------------------------------------- C15
\* Position of the first use of a collaborator in this call, 0 if unused.
StepIndex(step) ==
  IF Count(step) = 0 THEN 0
  ELSE CHOOSE i \in 1..Len(steps) :
         steps[i] = step /\ \A j \in 1..(i - 1) : steps[j] # step

\* C15: a call reads the cache at most once and writes it at most once,
\* whatever the flags and the cache hold; when it does both, the read comes
\* first.
C15_OneReadOneWrite ==
  /\ Count("read_cache") <= 1
  /\ Count("write_cache") <= 1
  /\ (Count("read_cache") = 1 /\ Count("write_cache") = 1
        => StepIndex("read_cache") < StepIndex("write_cache"))

C15_Witness ==
  /\ pc = "returned"
  /\ Count("read_cache") = 1
  /\ Count("write_cache") = 1
  /\ HasKey(cache, Key) /\ ~HasKey(cache0, Key)

\* ------------------------------------------------------------------- C16
\* The fixed order of the steps of a call.
StepRank(step) ==
  CASE step = "read_cache" -> 1
    [] step = "locate" -> 2
    [] step = "run" -> 3
    [] step = "parse" -> 4
    [] step = "write_cache" -> 5
    [] step = "populate" -> 6

\* C16: the steps of a call occur in the order read, locate, run, parse,
\* write, populate, each at most once; vagrant runs only right after a
\* locator that succeeded, the parser only right after a run that gave
\* output, populate only with records in hand; a call that returns has
\* populated exactly once, as its last step.
C16_StepOrder ==
  /\ \A i, j \in 1..Len(steps) : i < j => StepRank(steps[i]) < StepRank(steps[j])
  /\ \A i \in 1..Len(steps) :
       /\ steps[i] = "run" => i > 1 /\ steps[i - 1] = "locate" /\ vf_path.set
       /\ steps[i] = "parse" =>
            i > 1 /\ steps[i - 1] = "run" /\ proc = "ok" /\ out.set
       /\ steps[i] = "write_cache" => results.set
       /\ steps[i] = "populate" => i = Len(steps) /\ results.set
  /\ (pc = "returned" =>
        Count("populate") = 1 /\ steps[Len(steps)] = "populate")

C16_Witness ==
  /\ pc = "returned"
  /\ steps = <<"read_cache", "locate", "run", "parse", "write_cache", "populate">>

\* ------------------------------------------------------------------- C17
\* C17: the i-th emitted record is the record of the i-th host block: it
\* has exactly the fields the lines of that block set.
C17_RecordFieldsAreItsBlocks ==
  (Parsed /\ results.set) =>
    LET ls == NormLines(out.val) IN
    \A i \in 1..Len(results.val) :
      /\ i <= NumHosts(ls)
      /\ DOMAIN results.val[i] = KeysOf(BlockLines(ls, i))

\* The same for the records that come from host blocks, whatever precedes
\* the first Host line; and the records emitted after k lines are the first
\* records of the result.
BlockIsolation ==
  (Parsed /\ results.set) =>
    LET ls == NormLines(out.val) IN
    /\ Len(results.val) = NumHosts(ls) + Offset(ls)
    /\ \A n \in 1..NumHosts(ls) :
         DOMAIN results.val[n + Offset(ls)] = KeysOf(BlockLines(ls, n))
    /\ \A k \in 0..Len(ls) :
         LET done == ParseLoop(SubSeq(ls, 1, k), ParserStart).results IN
         /\ Len(done) <= Len(results.val)
         /\ done = SubSeq(results.val, 1, Len(done))

\* ------------------------------------------------------------------- C18
\* C18: a key given more than once in one host block has, in the block's
\* record, the value of its last line in the block.
C18_LastWriteWins ==
  (Parsed /\ results.set) =>
    LET ls == NormLines(out.val) IN
    \A n \in 1..NumHosts(ls) :
      \A k \in KeysOf(BlockLines(ls, n)) \ {"host"} :
        /\ n + Offset(ls) <= Len(results.val)
        /\ HasKey(results.val[n + Offset(ls)], k)
        /\ results.val[n + Offset(ls)][k] = LastValue(BlockLines(ls, n), k)

C18_Witness ==
  /\ Parsed /\ results.set
  /\ LET ls == NormLines(out.val) IN
     /\ NumHosts(ls) = 1
     /\ Offset(ls) = 0
     /\ Cardinality(Occurrences(BlockLines(ls, 1), "port")) = 2
     /\ PyInt(AfterFirstSpace(ls[2])).val # PyInt(AfterFirstSpace(ls[3])).val
     /\ results.val[1]["port"] = PyInt(AfterFirstSpace(ls[3])).val

\* ------------------------------------------------------------------- C19
\* What parse_inventory can return: the complete results of the texts
\* vagrant can print.
CompleteResults ==
  {ParseText(o).value : o \in {x \in ProcOutputs : ParseText(x).raised = "none"}}

\* C19: whenever a call with caching enabled returns, the cache has an
\* entry for the source's key, equal to the records the call gave populate;
\* and every entry of the cache, at any time, is a complete parser result.
C19_CacheMatchesSink ==
  /\ (pc = "returned" /\ user_cache_setting =>
        /\ Count("populate") = 1
        /\ HasKey(cache, Key)
        /\ cache[Key] = results.val)
  /\ \A k \in DOMAIN cache : cache[k] \in CompleteResults

C19_Witness ==
  /\ pc = "returned" /\ user_cache_setting
  /\ calls = 2
  /\ HasKey(cache0, Key) /\ cache0[Key] # cache[Key]
  /\ cache[Key] = results.val
  /\ results.val # <<>>

====
